---- MODULE Spec2Model ----
(***************************************************************************)
(* TransportBrowserTab (src/background/transport/transport-browser-tab.ts) *)
(* as a state machine.  One action per owner call (connect, disconnect,    *)
(* request) and per host callback (permission, tab and port callbacks and  *)
(* timers).  A callback runs to completion together with the promise       *)
(* continuations it resolves (microtasks run before the next host event).  *)
(***************************************************************************)
EXTENDS Integers, Sequences, FiniteSets, TLC

\* Number of connect() calls the owner issues (they may overlap).
MaxCalls == 1

\* private readonly _maxTabConnectionRetries = 10
MaxTabConnectionRetries == 10

\* undefined, for a tab (tab ids are strings) and for a port or a message's
\* data (port ids and port names are tuples)
None == "undefined"
NoPort == <<>>

\* Ids of browser tabs the host may report as the active tab, and those
\* among them that display _keeWebUrl.
TabIds == {"tab1", "tab2"}
KeeWebTabs == {"tab1"}

\* Application payloads passed through the port after the handshake.
Payloads == {"a", "b"}

VARIABLES
    _tab,        \* this._tab: a tab id or None
    _port,       \* this._port: a port id <<c, i>> or NoPort
    ports,      \* ports[c][i]: the host port opened by attempt i of call c
    pc,         \* pc[c]: where the c-th connect() call is suspended
    activeTab,  \* activeTab[c]: the local const activeTab of connect()
    budget,     \* budget[c]: retriesLeft of call c's latest connectToTab()
    activated,  \* activated[c]: tabs passed to activateTab by call c
    errs,       \* errs[c]: the 'err' events emitted by call c
    emitted,    \* events emitted to the owner in the last step
    hostCalls,  \* host API calls made in the last step
    delivered   \* the port message the host delivered in the last step, if any

vars == <<_tab, _port, ports, pc, activeTab, budget, activated, errs, emitted, hostCalls, delivered>>

\* The connect() calls issued so far or still to come
Calls == DOMAIN pc

\* The program state as one value; each handler maps a state to a state.
Cur ==
    [_tab |-> _tab, _port |-> _port, ports |-> ports, pc |-> pc,
     activeTab |-> activeTab, budget |-> budget, activated |-> activated,
     errs |-> errs,
     emitted |-> <<>>, hostCalls |-> <<>>]

NoMessage == [listener |-> "none"]

Becomes(s, msg) ==
    /\ delivered' = msg
    /\ _tab' = s._tab
    /\ _port' = s._port
    /\ ports' = s.ports
    /\ pc' = s.pc
    /\ activeTab' = s.activeTab
    /\ budget' = s.budget
    /\ activated' = s.activated
    /\ errs' = s.errs
    /\ emitted' = s.emitted
    /\ hostCalls' = s.hostCalls

----------------------------------------------------------------------------
\* Host ports

\* The ports chrome.tabs.connect has returned so far: <<c, i>> is the port of
\* the i-th attempt of call c
PortIds == UNION {{<<c, i>> : i \in 1..Len(ports[c])} : c \in Calls}

PortOf(s, p) == s.ports[p[1]][p[2]]

Port(p) == ports[p[1]][p[2]]

\* getRandomPortName(): a fresh name for every attempt
getRandomPortName(s, c) == <<"keeweb-connect", c, Len(s.ports[c]) + 1>>

\* The object chrome.tabs.connect returns, with the handshake listeners and
\* the response timer of lines 129-153 in place.
NewPort(tabId, name, retriesLeft) ==
    [tab |-> tabId, name |-> name, retriesLeft |-> retriesLeft, open |-> TRUE,
     responseTimeout |-> TRUE, retryTimer |-> FALSE,
     onDisconnect |-> {"tabDisconnected"}, onMessage |-> {"tabMessage"}]

Emit(s, e) == [s EXCEPT !.emitted = Append(@, e)]

Host(s, h) == [s EXCEPT !.hostCalls = Append(@, h)]

\* this.emit('err', ...) inside connect() call c
EmitErr(s, c, kind) ==
    [Emit(s, [type |-> "err", kind |-> kind]) EXCEPT !.errs[c] = Append(@, kind)]

\* port.disconnect(): closes the port; the local listeners are not notified
portDisconnect(s, p) ==
    [Host(s, [api |-> "port.disconnect", port |-> p])
        EXCEPT !.ports[p[1]][p[2]].open = FALSE]

\* port.postMessage(message)
portPostMessage(s, p, m) ==
    Host(s, [api |-> "port.postMessage", port |-> p, message |-> m])

----------------------------------------------------------------------------
\* connect(), lines 39-56: what runs once connectToTab's promise resolves
\* with p (a port id, or NoPort for undefined).

\* activeTab && this._tab.id !== activeTab.id ; reading .id of an undefined
\* _tab throws a TypeError, which rejects connect()
FocusCheck(s, c) ==
    IF s.activeTab[c] = None THEN "same"
    ELSE IF s._tab = None THEN "throws"
    ELSE IF s._tab # s.activeTab[c] THEN "differs"
    ELSE "same"

activateTab(s, c) ==
    [Host(s, [api |-> "activateTab", tab |-> s.activeTab[c]])
        EXCEPT !.activated[c] = Append(@, s.activeTab[c])]

connectFailed(s, c) ==
    LET chk == FocusCheck(s, c) IN
    IF chk = "throws" THEN [s EXCEPT !.pc[c] = "rejected"]
    ELSE IF chk = "differs" THEN [activateTab(s, c) EXCEPT !.pc[c] = "activateFail"]
    ELSE [EmitErr(s, c, "errorBrowserCannotConnectToTab") EXCEPT !.pc[c] = "resolved"]

connectSucceeded(s, c) ==
    LET p == s._port
        s1 == [s EXCEPT !.ports[p[1]][p[2]].onDisconnect = @ \cup {"portDisconnected"},
                        !.ports[p[1]][p[2]].onMessage = @ \cup {"portMessage"}]
        chk == FocusCheck(s1, c)
    IN  IF chk = "throws" THEN [s1 EXCEPT !.pc[c] = "rejected"]
        ELSE IF chk = "differs" THEN [activateTab(s1, c) EXCEPT !.pc[c] = "activateOk"]
        ELSE [s1 EXCEPT !.pc[c] = "resolved"]

connectResume(s, c, p) ==
    LET s1 == [s EXCEPT !._port = p] IN
    IF p = NoPort THEN connectFailed(s1, c) ELSE connectSucceeded(s1, c)

\* resolve(...) of the promise connect() awaits at line 39; a promise settles
\* once, later calls of resolve do nothing
resolve(s, c, p) ==
    IF s.pc[c] = "handshake" THEN connectResume(s, c, p) ELSE s

----------------------------------------------------------------------------
\* connectToTab(retriesLeft), lines 114-161

\* lines 120-159: open a port to this._tab and ping it with its own name.
\* With _tab undefined, this._tab.id throws inside the promise executor: the
\* promise rejects, nothing is opened and resolve is never called.
openAttempt(s, c, retriesLeft) ==
    IF s._tab = None THEN s
    ELSE LET name == getRandomPortName(s, c)
             p == <<c, Len(s.ports[c]) + 1>>
             s1 == Host(s, [api |-> "tabs.connect", tab |-> s._tab, name |-> name])
             s2 == [s1 EXCEPT !.ports[c] = Append(@, NewPort(s._tab, name, retriesLeft))]
         IN  portPostMessage(s2, p, [action |-> "ping", data |-> name])

connectToTab(s, c, retriesLeft) ==
    LET s1 == [s EXCEPT !.budget[c] = retriesLeft] IN
    IF retriesLeft <= 0 THEN resolve(s1, c, NoPort)
    ELSE openAttempt(s1, c, retriesLeft)

\* lines 123-127
cleanup(s, p) ==
    [s EXCEPT !.ports[p[1]][p[2]].responseTimeout = FALSE,
              !.ports[p[1]][p[2]].onDisconnect = @ \ {"tabDisconnected"},
              !.ports[p[1]][p[2]].onMessage = @ \ {"tabMessage"}]

\* the timeout retries without spending budget
responseTimeoutKeepsBudget(s, p) ==
    connectToTab(portDisconnect(cleanup(s, p), p), p[1], PortOf(s, p).retriesLeft)

\* lines 129-133
responseTimeout(s, p) ==
    connectToTab(portDisconnect(cleanup(s, p), p), p[1], PortOf(s, p).retriesLeft - 1)

\* the listener cleans up and never retries
tabDisconnectedNoRetry(s, p) == cleanup(s, p)

\* lines 135-140: the listener, which arms the retry timer
tabDisconnected(s, p) ==
    [cleanup(s, p) EXCEPT !.ports[p[1]][p[2]].retryTimer = TRUE]

\* lines 137-139: the retry timer's callback
retryTimeout(s, p) ==
    connectToTab([s EXCEPT !.ports[p[1]][p[2]].retryTimer = FALSE],
                 p[1], PortOf(s, p).retriesLeft - 1)

\* any port name is taken for this attempt's name
tabMessageAnyName(s, p, data) ==
    LET s1 == cleanup(s, p) IN
    IF data[1] = "keeweb-connect" THEN resolve(s1, p[1], p)
    ELSE resolve(portDisconnect(s1, p), p[1], NoPort)

\* lines 142-150
tabMessage(s, p, data) ==
    LET s1 == cleanup(s, p) IN
    IF data = PortOf(s, p).name THEN resolve(s1, p[1], p)
    ELSE resolve(portDisconnect(s1, p), p[1], NoPort)

----------------------------------------------------------------------------
\* the error is emitted whether or not a port was held
disconnectAlwaysEmits(s) ==
    LET s1 == [s EXCEPT !._tab = None]
        s2 == IF s._port = NoPort THEN s1
              ELSE [portDisconnect(s1, s._port) EXCEPT !._port = NoPort]
    IN  Emit(s2, [type |-> "err", kind |-> "errorKeeWebDisconnected"])

\* disconnect(), lines 59-70
disconnect(s) ==
    LET s1 == [s EXCEPT !._tab = None] IN
    IF s._port = NoPort THEN s1
    ELSE Emit([portDisconnect(s1, s._port) EXCEPT !._port = NoPort],
              [type |-> "err", kind |-> "errorKeeWebDisconnected"])

\* the message is posted without looking at _port
requestUnchecked(s, m) == portPostMessage(s, s._port, m)

\* request(message), lines 72-78
request(s, m) ==
    IF s._port # NoPort THEN portPostMessage(s, s._port, m)
    ELSE Emit(s, [type |-> "err", kind |-> "Port not connected"])

\* the Port is cleared but the TabHandle is kept
portDisconnectedKeepsTab(s) ==
    IF s._port # NoPort
    THEN Emit([s EXCEPT !._port = NoPort],
              [type |-> "err", kind |-> "errorKeeWebDisconnected"])
    ELSE s

\* portDisconnected(), lines 106-112
portDisconnected(s) ==
    LET s1 == IF s._port # NoPort
              THEN Emit([s EXCEPT !._port = NoPort],
                        [type |-> "err", kind |-> "errorKeeWebDisconnected"])
              ELSE s
    IN  [s1 EXCEPT !._tab = None]

\* the message is emitted twice
portMessageTwice(s, m) ==
    Emit(Emit(s, [type |-> "message", data |-> m]), [type |-> "message", data |-> m])

\* portMessage(msg), lines 167-169
portMessage(s, m) == Emit(s, [type |-> "message", data |-> m])

----------------------------------------------------------------------------
\* The steps of connect(), lines 23-37

\* line 24: connect() is called and awaits checkPermissions()
connectCalled(s, c) ==
    [Host(s, [api |-> "permissions.contains"]) EXCEPT !.pc[c] = "checkPermissions"]

\* the error is emitted but the return after it is missing
permissionsResultNoReturn(s, c, hasPermissions) ==
    LET s1 == IF ~hasPermissions
              THEN EmitErr(s, c, "errorBrowserTabNoPermissions")
              ELSE s
    IN  [Host(s1, [api |-> "getActiveTab"]) EXCEPT !.pc[c] = "getActiveTab"]

\* lines 25-31: the permission callback
permissionsResult(s, c, hasPermissions) ==
    IF ~hasPermissions
    THEN [EmitErr(s, c, "errorBrowserTabNoPermissions") EXCEPT !.pc[c] = "resolved"]
    ELSE [Host(s, [api |-> "getActiveTab"]) EXCEPT !.pc[c] = "getActiveTab"]

\* lines 31-32, 93-94: getActiveTab() resolves, findOrCreateTab() queries
activeTabResult(s, c, t) ==
    [Host(s, [api |-> "tabs.query"])
        EXCEPT !.activeTab[c] = t, !.pc[c] = "tabsQuery"]

\* lines 32-39: findOrCreateTab() resolves with t
tabAcquired(s, c, t) ==
    LET s1 == [s EXCEPT !._tab = t] IN
    IF t = None
    THEN [EmitErr(s1, c, "errorBrowserCannotCreateTab") EXCEPT !.pc[c] = "resolved"]
    ELSE connectToTab([s1 EXCEPT !.pc[c] = "handshake"], c, MaxTabConnectionRetries)

\* lines 94-101: the tabs.query callback
tabsQueryResult(s, c, t) ==
    IF t # None THEN tabAcquired(s, c, t)
    ELSE [Host(s, [api |-> "tabs.create"]) EXCEPT !.pc[c] = "tabsCreate"]

\* lines 98-100: the tabs.create callback
tabsCreateResult(s, c, t) == tabAcquired(s, c, t)

\* lines 42-48 and 55-56: activateTab() resolves
activateTabDone(s, c) ==
    IF s.pc[c] = "activateFail"
    THEN [EmitErr(s, c, "errorBrowserCannotConnectToTab") EXCEPT !.pc[c] = "resolved"]
    ELSE [s EXCEPT !.pc[c] = "resolved"]

----------------------------------------------------------------------------
\* The connector after construction, with n connect() calls to come
InitCalls(n) ==
    /\ _tab = None
    /\ _port = NoPort
    /\ ports = [c \in 1..n |-> <<>>]
    /\ pc = [c \in 1..n |-> "idle"]
    /\ activeTab = [c \in 1..n |-> None]
    /\ budget = [c \in 1..n |-> MaxTabConnectionRetries]
    /\ activated = [c \in 1..n |-> <<>>]
    /\ errs = [c \in 1..n |-> <<>>]
    /\ emitted = <<>>
    /\ hostCalls = <<>>
    /\ delivered = NoMessage

Init == InitCalls(MaxCalls)

\* Owner calls
Connect(c) ==
    /\ pc[c] = "idle"
    /\ \A d \in Calls : d < c => pc[d] # "idle"
    /\ Becomes(connectCalled(Cur, c), NoMessage)

Disconnect == Becomes(disconnect(Cur), NoMessage)

Request(m) == Becomes(request(Cur, m), NoMessage)

\* Host callbacks of connect()
PermissionsResult(c, b) ==
    /\ pc[c] = "checkPermissions"
    /\ Becomes(permissionsResult(Cur, c, b), NoMessage)

ActiveTabResult(c, t) ==
    /\ pc[c] = "getActiveTab"
    /\ Becomes(activeTabResult(Cur, c, t), NoMessage)

TabsQueryResult(c, t) ==
    /\ pc[c] = "tabsQuery"
    /\ Becomes(tabsQueryResult(Cur, c, t), NoMessage)

TabsCreateResult(c, t) ==
    /\ pc[c] = "tabsCreate"
    /\ Becomes(tabsCreateResult(Cur, c, t), NoMessage)

ActivateTabDone(c) ==
    /\ pc[c] \in {"activateFail", "activateOk"}
    /\ Becomes(activateTabDone(Cur, c), NoMessage)

\* Timers and port events of a handshake attempt
ResponseTimeout(p) ==
    /\ Port(p).responseTimeout
    /\ Becomes(responseTimeout(Cur, p), NoMessage)

\* the far end closes the port before any message
TabDisconnected(p) ==
    /\ Port(p).open
    /\ "tabDisconnected" \in Port(p).onDisconnect
    /\ "portDisconnected" \notin Port(p).onDisconnect
    /\ Becomes(tabDisconnected([Cur EXCEPT !.ports[p[1]][p[2]].open = FALSE], p), NoMessage)

RetryTimeout(p) ==
    /\ Port(p).retryTimer
    /\ Becomes(retryTimeout(Cur, p), NoMessage)

\* What a tab may send on port p during the handshake: p's own name, a stale
\* name (that of the attempt before it, or of the latest port of any call)
\* or something that is no port name.
Replies(p) ==
    {Port(p).name, <<"garbage">>}
        \cup {Port(q).name : q \in {r \in PortIds :
                  r[2] = Len(ports[r[1]]) \/ (r[1] = p[1] /\ r[2] = p[2] - 1)}}

TabMessage(p) ==
    /\ Port(p).open
    /\ "tabMessage" \in Port(p).onMessage
    /\ "portMessage" \notin Port(p).onMessage
    /\ \E data \in Replies(p) :
          Becomes(tabMessage(Cur, p, data),
                  [listener |-> "tabMessage", port |-> p, data |-> data])

\* Events on a port that carries the relay listeners of lines 51-52
PortDisconnected(p) ==
    /\ Port(p).open
    /\ Port(p).onDisconnect = {"portDisconnected"}
    /\ Becomes(portDisconnected([Cur EXCEPT !.ports[p[1]][p[2]].open = FALSE]), NoMessage)

PortMessage(p) ==
    /\ Port(p).open
    /\ Port(p).onMessage = {"portMessage"}
    /\ \E m \in Payloads :
          Becomes(portMessage(Cur, m),
                  [listener |-> "portMessage", port |-> p, data |-> m])

Next ==
    \/ \E c \in Calls : Connect(c)
    \/ Disconnect
    \/ \E m \in Payloads : Request(m)
    \/ \E c \in Calls, b \in BOOLEAN : PermissionsResult(c, b)
    \/ \E c \in Calls, t \in TabIds \cup {None} : ActiveTabResult(c, t)
    \/ \E c \in Calls, t \in KeeWebTabs \cup {None} : TabsQueryResult(c, t)
    \/ \E c \in Calls, t \in KeeWebTabs \cup {None} : TabsCreateResult(c, t)
    \/ \E c \in Calls : ActivateTabDone(c)
    \/ \E p \in PortIds : ResponseTimeout(p)
    \/ \E p \in PortIds : TabDisconnected(p)
    \/ \E p \in PortIds : RetryTimeout(p)
    \/ \E p \in PortIds : TabMessage(p)
    \/ \E p \in PortIds : PortDisconnected(p)
    \/ \E p \in PortIds : PortMessage(p)

Spec == Init /\ [][Next]_vars

\* The same connector with one more connect() call, which may overlap the
\* others or follow them.
SpecReentrant == InitCalls(MaxCalls + 1) /\ [][Next]_vars

\* One connect() call and no other owner call.  The host answers every
\* request it was given and every armed timer fires; whether and when the
\* far end of a port sends or disconnects is up to the far end.
NextSolo ==
    \/ Connect(1)
    \/ \E b \in BOOLEAN : PermissionsResult(1, b)
    \/ \E t \in TabIds \cup {None} : ActiveTabResult(1, t)
    \/ \E t \in KeeWebTabs \cup {None} : TabsQueryResult(1, t)
    \/ \E t \in KeeWebTabs \cup {None} : TabsCreateResult(1, t)
    \/ ActivateTabDone(1)
    \/ \E p \in PortIds : ResponseTimeout(p)
    \/ \E p \in PortIds : TabDisconnected(p)
    \/ \E p \in PortIds : RetryTimeout(p)
    \/ \E p \in PortIds : TabMessage(p)
    \/ \E p \in PortIds : PortDisconnected(p)
    \/ \E p \in PortIds : PortMessage(p)

HostAnswers ==
    \/ \E b \in BOOLEAN : PermissionsResult(1, b)
    \/ \E t \in TabIds \cup {None} : ActiveTabResult(1, t)
    \/ \E t \in KeeWebTabs \cup {None} : TabsQueryResult(1, t)
    \/ \E t \in KeeWebTabs \cup {None} : TabsCreateResult(1, t)
    \/ ActivateTabDone(1)

TimerFires ==
    \E p \in PortIds : ResponseTimeout(p) \/ RetryTimeout(p)

SpecSolo ==
    /\ InitCalls(1)
    /\ [][NextSolo]_vars
    /\ WF_vars(HostAnswers)
    /\ WF_vars(TimerFires)

\* One connect() call during which the owner may call disconnect(), with the
\* host and the timers as in SpecSolo.
NextInterrupted == NextSolo \/ Disconnect

SpecInterrupted ==
    /\ InitCalls(1)
    /\ [][NextInterrupted]_vars
    /\ WF_vars(HostAnswers)
    /\ WF_vars(TimerFires)

----------------------------------------------------------------------------
\* Claims

\* C1: a handshake attempt succeeds (its port becomes the connector's Port)
\* only in a step in which that port's tabMessage listener received the
\* attempt's own name; a message with any other data, a stale name included,
\* leaves the port closed and not retained.
C1_Repudiated ==
    (delivered.listener = "tabMessage"
        /\ delivered.data # PortOf(Cur, delivered.port).name)
    => /\ _port # delivered.port
       /\ ~PortOf(Cur, delivered.port).open
       /\ "portMessage" \notin PortOf(Cur, delivered.port).onMessage

C1_Retains ==
    (_port' # _port /\ _port' # NoPort)
    => /\ delivered'.listener = "tabMessage"
       /\ delivered'.port = _port'
       /\ delivered'.data = ports'[_port'[1]][_port'[2]].name
       /\ "tabMessage" \in PortOf(Cur, _port').onMessage

C1_SuccessOnlyOnOwnToken == []C1_Repudiated /\ [][C1_Retains]_vars

\* C1 witness: the second attempt of a call succeeded on its own name.
C1_Witness ==
    /\ delivered.listener = "tabMessage"
    /\ delivered.port = <<1, 2>>
    /\ delivered.data = PortOf(Cur, <<1, 2>>).name
    /\ _port = <<1, 2>>

\* C3: the i-th port of a call is opened with budget 10 - (i - 1), which is
\* at least 1, so a call opens at most 10 ports and the attempt opened with
\* budget 1 is the last one.
C3_BudgetDropsByOne ==
    \A c \in Calls :
        /\ budget[c] \in 0..MaxTabConnectionRetries
        /\ Len(ports[c]) <= MaxTabConnectionRetries - budget[c] + 1
        /\ Len(ports[c]) <= MaxTabConnectionRetries
        /\ \A i \in 1..Len(ports[c]) :
              /\ ports[c][i].retriesLeft = MaxTabConnectionRetries - (i - 1)
              /\ ports[c][i].retriesLeft >= 1

\* C3 witness: the budget is spent: ten ports opened, the last with budget 1
\* and ended, and the call is over.
C3_Witness ==
    /\ Len(ports[1]) = MaxTabConnectionRetries
    /\ ports[1][MaxTabConnectionRetries].retriesLeft = 1
    /\ ~ports[1][MaxTabConnectionRetries].responseTimeout
    /\ ~ports[1][MaxTabConnectionRetries].retryTimer
    /\ pc[1] = "resolved"
    /\ _port = NoPort
    /\ budget[1] = 0

ConnectionError == "errorBrowserCannotConnectToTab"

\* The handshake of call c has begun (permission held, tab acquired).
ReachedHandshake(c) == Len(ports[c]) >= 1

\* No attempt of call c can still act: no timer armed, no handshake listener.
NoAttemptPending(c) ==
    \A i \in 1..Len(ports[c]) :
        /\ ~ports[c][i].responseTimeout
        /\ ~ports[c][i].retryTimer
        /\ "tabDisconnected" \notin ports[c][i].onDisconnect
        /\ "tabMessage" \notin ports[c][i].onMessage

\* C2: when the message an attempt receives differs from its name, the port
\* is closed, the call opens no further port (it is the call's last port and
\* nothing of the call is pending), and connect() emits the connection
\* error: at once, or after the activateTab() it awaits first.
C2_RepudiationEndsInError ==
    (delivered.listener = "tabMessage"
        /\ delivered.data # PortOf(Cur, delivered.port).name)
    => LET c == delivered.port[1] IN
       /\ ~PortOf(Cur, delivered.port).open
       /\ delivered.port[2] = Len(ports[c])
       /\ NoAttemptPending(c)
       /\ \/ pc[c] = "resolved" /\ errs[c] = <<ConnectionError>>
          \/ pc[c] = "activateFail"

\* C4 (the error is emitted if the budget reaches 0 without success): a call
\* that began its handshake and ended with its budget at 0 has emitted the
\* connection error, exactly once.
C4_ErrorWhenBudgetExhausted ==
    \A c \in Calls :
        (ReachedHandshake(c) /\ budget[c] = 0 /\ pc[c] \in {"resolved", "rejected"})
            => errs[c] = <<ConnectionError>>

\* The other half of C4's sentence (the error is not emitted while budget
\* remains): a call that emitted the connection error has budget 0.
C4_NoErrorWhileBudgetRemains ==
    \A c \in Calls :
        ConnectionError \in {errs[c][i] : i \in 1..Len(errs[c])} => budget[c] = 0

\* C5: disconnect() with no Port held emits nothing and closes no port; with
\* a Port held it closes that port and no other, clears Port and TabHandle
\* and emits exactly one error event; either way it leaves Port and
\* TabHandle cleared, so that a second disconnect() changes nothing.
C5_DisconnectStep ==
    Disconnect =>
        /\ _tab' = None /\ _port' = NoPort
        /\ UNCHANGED <<pc, activeTab, budget, activated, errs>>
        /\ IF _port = NoPort
           THEN emitted' = <<>> /\ hostCalls' = <<>> /\ ports' = ports
           ELSE /\ emitted' = <<[type |-> "err", kind |-> "errorKeeWebDisconnected"]>>
                /\ hostCalls' = <<[api |-> "port.disconnect", port |-> _port]>>
                /\ PortOf(Cur, _port).open
                /\ ports' = [ports EXCEPT ![_port[1]][_port[2]].open = FALSE]
        /\ (_port = NoPort /\ _tab = None) =>
               UNCHANGED <<_tab, _port, ports, pc, activeTab, budget, activated, errs>>

C5_DisconnectIdempotent == [][C5_DisconnectStep]_vars

\* C5 witness: disconnect() has just closed the held port.
C5_Witness ==
    /\ emitted = <<[type |-> "err", kind |-> "errorKeeWebDisconnected"]>>
    /\ Len(hostCalls) = 1
    /\ hostCalls[1].api = "port.disconnect"
    /\ ~PortOf(Cur, hostCalls[1].port).open
    /\ _port = NoPort
    /\ _tab = None

\* A port that passed the handshake and is retained: open, with the relay
\* listeners and without the handshake listeners.
PassedHandshake(p) ==
    /\ PortOf(Cur, p).open
    /\ PortOf(Cur, p).onMessage = {"portMessage"}
    /\ PortOf(Cur, p).onDisconnect = {"portDisconnected"}
    /\ ~PortOf(Cur, p).responseTimeout

\* C6: request(m) posts m, unchanged, on the held Port and emits nothing
\* when a Port is held, and a held Port has always passed the handshake; in
\* every other state it emits exactly one 'Port not connected' error and
\* posts nothing.
C6_RequestStep ==
    \A m \in Payloads :
        Request(m) =>
            /\ UNCHANGED <<_tab, _port, ports, pc, activeTab, budget, activated, errs>>
            /\ IF _port # NoPort
               THEN /\ hostCalls' = <<[api |-> "port.postMessage", port |-> _port,
                                       message |-> m]>>
                    /\ emitted' = <<>>
               ELSE /\ hostCalls' = <<>>
                    /\ emitted' = <<[type |-> "err", kind |-> "Port not connected"]>>

C6_SendOnlyWhenConnected ==
    /\ [](_port # NoPort => PassedHandshake(_port))
    /\ [][C6_RequestStep]_vars

\* C6 witness: request("b") has just been posted on the held Port.
C6_Witness ==
    /\ _port # NoPort
    /\ hostCalls = <<[api |-> "port.postMessage", port |-> _port, message |-> "b"]>>
    /\ emitted = <<>>

\* C7: a call that began its handshake and is over (handshake succeeded or
\* failed) has invoked activateTab exactly once, with the tab that was
\* active, if that tab differs from the tab connected to, and never
\* otherwise.
C7_FocusRestoredOnce ==
    \A c \in Calls :
        (ReachedHandshake(c) /\ pc[c] \in {"resolved", "rejected"}) =>
            activated[c] =
                IF activeTab[c] # None /\ activeTab[c] # ports[c][1].tab
                THEN <<activeTab[c]>>
                ELSE <<>>

\* C8: on a denied permission connect() resolves in that step, emitting
\* exactly one permissions error and calling no host API, with TabHandle,
\* Port and all ports unchanged; such a call never looks up the active tab,
\* queries or creates a tab, opens a port or emits anything more.
C8_DeniedStep ==
    \A c \in Calls :
        PermissionsResult(c, FALSE) =>
            /\ emitted' = <<[type |-> "err", kind |-> "errorBrowserTabNoPermissions"]>>
            /\ hostCalls' = <<>>
            /\ pc'[c] = "resolved"
            /\ UNCHANGED <<_tab, _port, ports, activeTab, budget, activated>>

C8_DeniedCall ==
    \A c \in Calls :
        (errs[c] # <<>> /\ errs[c][1] = "errorBrowserTabNoPermissions") =>
            /\ errs[c] = <<"errorBrowserTabNoPermissions">>
            /\ pc[c] = "resolved"
            /\ ports[c] = <<>>
            /\ activeTab[c] = None
            /\ activated[c] = <<>>

C8_PermissionDenied == []C8_DeniedCall /\ [][C8_DeniedStep]_vars

\* C8 witness: the permission was just denied.
C8_Witness ==
    /\ emitted = <<[type |-> "err", kind |-> "errorBrowserTabNoPermissions"]>>
    /\ errs[1] = <<"errorBrowserTabNoPermissions">>
    /\ pc[1] = "resolved"

\* C9: in the step in which a connect() call resolves, every port the call
\* opened is closed unless it is the connector's Port, and an open one is
\* the last port the call opened.
C9_ResolveStep ==
    \A c \in Calls :
        (pc[c] # "resolved" /\ pc'[c] = "resolved") =>
            \A i \in 1..Len(ports'[c]) :
                ports'[c][i].open => (_port' = <<c, i>> /\ i = Len(ports'[c]))

C9_OnlyRetainedPortOpen == [][C9_ResolveStep]_vars

\* The handshake of call c succeeded: its last port got the relay listeners.
Succeeded(c) ==
    /\ ReachedHandshake(c)
    /\ "portMessage" \in ports[c][Len(ports[c])].onMessage

\* C10: a connect() call with no other owner call interleaved resolves in
\* the end, whatever the host and the tab answer, and never rejects; a call
\* that resolved without a successful handshake holds no Port and has
\* emitted exactly one error event.
C10_FailedCall ==
    \A c \in Calls :
        /\ pc[c] # "rejected"
        /\ (pc[c] = "resolved" /\ ~Succeeded(c)) =>
              (_port = NoPort /\ Len(errs[c]) = 1)
        /\ (pc[c] = "resolved" /\ Succeeded(c)) => errs[c] = <<>>

C10_ConnectResolves ==
    /\ []C10_FailedCall
    /\ \A c \in {1} : (pc[c] # "idle") ~> (pc[c] = "resolved")

\* C10 witness: the call resolved after spending its budget, having restored
\* the focus and emitted the connection error.
C10_Witness ==
    /\ pc[1] = "resolved"
    /\ budget[1] = 0
    /\ activated[1] = <<"tab2">>
    /\ errs[1] = <<ConnectionError>>
    /\ _port = NoPort

\* C11: in every reachable state, a connector that holds a Port also holds a
\* TabHandle.
C11_PortImpliesTabHandle == _port # NoPort => _tab # None

\* C12: the step in which a connect() call ends in terminal handshake failure
\* (it began its handshake and ends without a successful attempt) leaves the
\* connector with neither a Port nor a TabHandle, and so does every
\* disconnect() step.
C12_TeardownStep ==
    /\ \A c \in Calls :
          (/\ pc[c] \notin {"resolved", "rejected"}
           /\ pc'[c] \in {"resolved", "rejected"}
           /\ ports'[c] # <<>>
           /\ "portMessage" \notin ports'[c][Len(ports'[c])].onMessage)
          => (_port' = NoPort /\ _tab' = None)
    /\ Disconnect => (_port' = NoPort /\ _tab' = None)

C12_TornDownTogether == [][C12_TeardownStep]_vars

\* A handshake attempt is in flight on port p: its response timer is armed or
\* one of its handshake listeners is attached.
InFlight(p) ==
    \/ Port(p).responseTimeout
    \/ "tabDisconnected" \in Port(p).onDisconnect
    \/ "tabMessage" \in Port(p).onMessage

\* C13: at any time at most one port has a handshake attempt in flight, so no
\* two ports have handshake listeners attached at once.
C13_OneAttemptInFlight == Cardinality({p \in PortIds : InFlight(p)}) <= 1

\* The timer and the two handshake listeners of an attempt are cancelled
\* together, and a closed port or a port in backoff has none of them: once one
\* outcome was handled, neither of the other two can be.
C14_OneOutcome ==
    \A p \in PortIds :
        /\ Port(p).responseTimeout <=> "tabDisconnected" \in Port(p).onDisconnect
        /\ Port(p).responseTimeout <=> "tabMessage" \in Port(p).onMessage
        /\ Port(p).retryTimer => ~Port(p).responseTimeout
        /\ Port(p).responseTimeout => Port(p).open

\* A response or backoff timer that fires once disconnect() has cleared the
\* TabHandle has no effect: it closes and opens no port, changes no budget,
\* resumes no connect() call and emits nothing.
C14_StaleTimerStep ==
    (TimerFires /\ _tab = None) =>
        /\ \A c \in Calls :
              /\ Len(ports'[c]) = Len(ports[c])
              /\ \A i \in 1..Len(ports[c]) : ports'[c][i].open = ports[c][i].open
        /\ UNCHANGED <<_tab, _port, pc, budget, activated, errs>>
        /\ emitted' = <<>>
        /\ hostCalls' = <<>>

\* C14: each attempt is concluded by exactly one of timeout, disconnect and
\* message, after which its timer and listeners are cancelled; and no timer
\* takes effect after disconnect() has moved the connector's state on.
C14_TimersCancelled == []C14_OneOutcome /\ [][C14_StaleTimerStep]_vars

\* C15: the step in which an attempt of call c times out with budget left
\* opens the next attempt's port, armed, and arms no backoff timer; the step in
\* which an attempt is disconnected before any message opens no port and arms
\* the backoff timer; and a further port of a call is opened only by a
\* response timer or a backoff timer firing.
C15_RetryStep ==
    \A p \in PortIds :
        LET c == p[1] IN
        /\ (ResponseTimeout(p) /\ Port(p).retriesLeft > 1) =>
              /\ Len(ports'[c]) = Len(ports[c]) + 1
              /\ ports'[c][Len(ports'[c])].responseTimeout
              /\ ports'[c][Len(ports'[c])].retriesLeft = Port(p).retriesLeft - 1
              /\ \A i \in 1..Len(ports'[c]) : ~ports'[c][i].retryTimer
        /\ TabDisconnected(p) =>
              /\ ports'[c][p[2]].retryTimer
              /\ \A d \in Calls : Len(ports'[d]) = Len(ports[d])
        /\ (p[2] = Len(ports[c]) /\ Len(ports'[c]) > Len(ports[c])) =>
              (ResponseTimeout(p) \/ RetryTimeout(p))

C15_TimeoutRetriesAtOnce == [][C15_RetryStep]_vars

\* C16: when the far end disconnects the Port the connector holds, the
\* connector clears Port and TabHandle and emits exactly one error event, the
\* error disconnect() emits, closing and opening no port itself; a disconnect
\* event arriving when no Port is held emits nothing and clears the TabHandle.
C16_RemoteDisconnectStep ==
    \A p \in PortIds :
        PortDisconnected(p) =>
            /\ (_port = p) =>
                  /\ _port' = NoPort /\ _tab' = None
                  /\ emitted' = <<[type |-> "err", kind |-> "errorKeeWebDisconnected"]>>
            /\ (_port = NoPort) =>
                  /\ _port' = NoPort /\ _tab' = None
                  /\ emitted' = <<>>
            /\ hostCalls' = <<>>
            /\ ports' = [ports EXCEPT ![p[1]][p[2]].open = FALSE]
            /\ UNCHANGED <<pc, activeTab, budget, activated, errs>>

C16_RemoteDisconnect == [][C16_RemoteDisconnectStep]_vars

\* C16 witness: the far end has just disconnected the held Port.
C16_Witness ==
    /\ emitted = <<[type |-> "err", kind |-> "errorKeeWebDisconnected"]>>
    /\ hostCalls = <<>>
    /\ _port = NoPort
    /\ _tab = None
    /\ \E p \in PortIds :
          /\ ~Port(p).open
          /\ Port(p).onDisconnect = {"portDisconnected"}

\* The 'message' events emitted in the last step
MessageEvents == {i \in 1..Len(emitted) : emitted[i].type = "message"}

\* A step emits a message event only when a message was delivered to the
\* relay listener of a port whose handshake had succeeded, and then exactly
\* one, carrying the delivered data; the message delivered to a handshake
\* listener (the ping response, matching or not) is never emitted.
C17_OnlyRelayed ==
    /\ MessageEvents # {} =>
          /\ delivered.listener = "portMessage"
          /\ emitted = <<[type |-> "message", data |-> delivered.data]>>
          /\ Port(delivered.port).onMessage = {"portMessage"}
          /\ "tabMessage" \notin Port(delivered.port).onMessage
    /\ delivered.listener = "tabMessage" => MessageEvents = {}

\* Every message arriving on the held Port is emitted once, unchanged, and
\* changes nothing else.
C17_RelayStep ==
    \A p \in PortIds :
        (PortMessage(p) /\ p = _port) =>
            /\ delivered'.listener = "portMessage"
            /\ emitted' = <<[type |-> "message", data |-> delivered'.data]>>
            /\ hostCalls' = <<>>
            /\ UNCHANGED <<_tab, _port, ports, pc, activeTab, budget, activated, errs>>

\* C17: after the handshake every message arriving on the held Port is
\* emitted as exactly one message event with its payload unchanged; the ping
\* response and messages on ports of failed or abandoned attempts are never
\* emitted as message events.
C17_MessagesRelayed == []C17_OnlyRelayed /\ [][C17_RelayStep]_vars

\* C17 witness: payload "b" arrived on the held Port and was emitted.
C17_Witness ==
    /\ delivered = [listener |-> "portMessage", port |-> _port, data |-> "b"]
    /\ emitted = <<[type |-> "message", data |-> "b"]>>
    /\ _port # NoPort

\* The host calls of the last step that create a tab
TabsCreated == {i \in 1..Len(hostCalls) : hostCalls[i].api = "tabs.create"}

\* A call whose tab creation failed has resolved with exactly one
\* tab-creation error, no port opened and no activateTab; and tabs.create is
\* called only by a call whose query found no tab.
C18_CreationFailed ==
    /\ \A c \in Calls :
          (errs[c] # <<>> /\ errs[c][1] = "errorBrowserCannotCreateTab") =>
              /\ errs[c] = <<"errorBrowserCannotCreateTab">>
              /\ pc[c] = "resolved"
              /\ ports[c] = <<>>
              /\ activated[c] = <<>>
    /\ TabsCreated # {} =>
          /\ hostCalls = <<[api |-> "tabs.create"]>>
          /\ \E c \in Calls : pc[c] = "tabsCreate"

\* The query's answer decides: a found tab is used and none is created, no
\* tab found creates one; a creation that yields no tab resolves the call,
\* emitting one tab-creation error, and leaves no TabHandle and no Port.
C18_TabStep ==
    \A c \in Calls :
        /\ \A t \in KeeWebTabs :
              TabsQueryResult(c, t) =>
                  /\ _tab' = t
                  /\ pc'[c] = "handshake"
                  /\ \A i \in 1..Len(hostCalls') : hostCalls'[i].api # "tabs.create"
        /\ TabsQueryResult(c, None) =>
              /\ hostCalls' = <<[api |-> "tabs.create"]>>
              /\ pc'[c] = "tabsCreate"
              /\ UNCHANGED <<_tab, _port, ports>>
        /\ TabsCreateResult(c, None) =>
              /\ emitted' = <<[type |-> "err", kind |-> "errorBrowserCannotCreateTab"]>>
              /\ hostCalls' = <<>>
              /\ pc'[c] = "resolved"
              /\ _tab' = None
              /\ _port' = NoPort
              /\ UNCHANGED <<ports, activated>>

\* C18: with permission granted a tab is created only when the query finds
\* none, a found tab is used without creating one, and a creation that yields
\* no tab makes connect() resolve with exactly one tab-creation error, no port
\* opened, no activateTab, no TabHandle and no Port.
C18_FindOrCreateTab == []C18_CreationFailed /\ [][C18_TabStep]_vars

\* The only open port with the relay listeners of lines 51-52 is the held Port.
C19_OnlyHeldPortRelays ==
    \A p \in PortIds :
        (Port(p).open /\ "portMessage" \in Port(p).onMessage) => p = _port

\* A message or a disconnect event on a port that is not the held Port emits
\* no message event and leaves Port and TabHandle as they are.
C19_StalePortStep ==
    \A p \in PortIds :
        ((PortMessage(p) \/ PortDisconnected(p)) /\ p # _port) =>
            /\ \A i \in 1..Len(emitted') : emitted'[i].type # "message"
            /\ UNCHANGED <<_tab, _port>>

\* C19: at any time the only open port carrying the relay listeners is the
\* held Port, so no earlier retained port is left open and unreferenced, and
\* an event on such a port neither emits a message event nor clears the
\* current Port or TabHandle.
C19_NoLeakedRelayPort == []C19_OnlyHeldPortRelays /\ [][C19_StalePortStep]_vars

\* The step of port p's attempt reads this._tab.id: a timer that opens the
\* next port (line 121), or the end of the handshake with an active tab
\* recorded (lines 41 and 54).
ReadsTabHandle(p) ==
    \/ (ResponseTimeout(p) \/ RetryTimeout(p)) /\ Port(p).retriesLeft > 1
    \/ /\ activeTab[p[1]] # None
       /\ \/ TabMessage(p)
          \/ (ResponseTimeout(p) \/ RetryTimeout(p)) /\ Port(p).retriesLeft = 1

C20_TabHandleStep == \A p \in PortIds : ReadsTabHandle(p) => _tab # None

\* C20: with disconnect() called while the handshake of a connect() call is
\* in flight, the call never rejects, every later step of the handshake that
\* reads the TabHandle finds it set, and the call resolves in the end.
C20_DisconnectInFlight ==
    /\ [](\A c \in Calls : pc[c] # "rejected")
    /\ [][C20_TabHandleStep]_vars
    /\ \A c \in {1} : (pc[c] # "idle") ~> (pc[c] = "resolved")

====
